---------------------------- MODULE Spec2Model ----------------------------
(***************************************************************************)
(* Model of the financial anomaly detector:                                *)
(*   - the main window's run-button gate and its analysis worker           *)
(*     (src/src/gui/main_window.py, src/src/gui/widgets/analysis_worker.py)*)
(*   - the ratio derivation and the feature-matrix assembly                *)
(*     (src/src/utils/feature_engineering.py).                             *)
(*                                                                         *)
(* The main window connects the worker's signals under the names progress, *)
(* error and finished; the worker class in the source tree declares them   *)
(* as progress_update, error_occurred and analysis_complete.  The model    *)
(* identifies them pairwise: finished carries the result object, as the    *)
(* slot analysis_completed(result) requires.                               *)
(***************************************************************************)
EXTENDS Integers, Sequences, FiniteSets, TLC

VARIABLES
    current_data,     \* main window: loaded table (None or Table)
    output_dir,       \* main window: selected output directory (None or a dir id)
    run_button,       \* main window: run_button.isEnabled()
    analysis_thread,  \* main window: the worker last started (None or a run id)
    current_result,   \* main window: result of the last completed analysis
    plots_directory,  \* plot viewer: directory handed to set_plots_directory
    tab_index,        \* main window: tab_widget.currentIndex()
    workers,          \* the workers started so far, in start order
    events,           \* signals posted to the control thread, not yet delivered
    notified,         \* per run: the terminal notification the control thread got
    input_data,       \* the raw table handed to the feature engineering calls
    input_options,    \* the feature options handed to prepare_features
    ratios_result,    \* what calculate_ratios(input_data) returned or raised
    features_result,  \* what prepare_features(input_data, input_options) gave
    ratios_again      \* what a second calculate_ratios(input_data) returned

gui_vars == <<current_data, output_dir, run_button, analysis_thread,
              current_result, plots_directory, tab_index, workers, events,
              notified>>

fe_vars == <<input_data, input_options, ratios_result, features_result,
             ratios_again>>

vars == <<gui_vars, fe_vars>>

(* Python's None; file, directory and run ids are positive. *)
None == 0

(* Bounds of the model. *)
MaxRuns == 1
MaxDirs == 2
MaxEvents == 2

(* The table read_csv returns; its contents play no part in the gate. *)
Table == 1
Dirs == 1..MaxDirs
Runs == 1..Len(workers)

(***************************************************************************)
(* Floating-point cells.  A cell is a finite number (an exact fraction     *)
(* n/d, d > 0, in lowest terms), not-a-number, or an infinity (n = +1 or   *)
(* -1).  Rounding is not modelled; the special values follow IEEE 754 as   *)
(* numpy applies them to a float64 Series.                                 *)
(***************************************************************************)
Abs(x) == IF x < 0 THEN -x ELSE x

Sgn(x) == IF x < 0 THEN -1 ELSE IF x > 0 THEN 1 ELSE 0

RECURSIVE Gcd(_, _)
Gcd(a, b) == IF b = 0 THEN a ELSE Gcd(b, a % b)

NaN == [k |-> "nan", n |-> 0, d |-> 1]

Inf(sign) == [k |-> "inf", n |-> sign, d |-> 1]

Fin(n, d) ==
    LET g == Gcd(Abs(n), Abs(d))
    IN [k |-> "fin", n |-> (Sgn(d) * n) \div g, d |-> Abs(d) \div g]

Num(i) == [k |-> "fin", n |-> i, d |-> 1]

IsNaN(x) == x.k = "nan"

IsFinite(x) == x.k \in {"fin", "sqrt"}

Neg(x) == IF x.k = "nan" THEN NaN ELSE [x EXCEPT !.n = -x.n]

Add(x, y) ==
    IF x.k = "nan" \/ y.k = "nan" THEN NaN
    ELSE IF x.k = "inf" /\ y.k = "inf" THEN (IF x.n = y.n THEN x ELSE NaN)
    ELSE IF x.k = "inf" THEN x
    ELSE IF y.k = "inf" THEN y
    ELSE Fin(x.n * y.d + y.n * x.d, x.d * y.d)

Sub(x, y) == Add(x, Neg(y))

Mul(x, y) ==
    IF x.k = "nan" \/ y.k = "nan" THEN NaN
    ELSE IF x.k = "inf" \/ y.k = "inf"
         THEN (IF x.n = 0 \/ y.n = 0 THEN NaN ELSE Inf(Sgn(x.n) * Sgn(y.n)))
    ELSE Fin(x.n * y.n, x.d * y.d)

(* x / y: a finite non-zero number over zero is an infinity, 0/0 and        *)
(* inf/inf are not-a-number, a finite number over an infinity is 0.         *)
Div(x, y) ==
    IF x.k = "nan" \/ y.k = "nan" THEN NaN
    ELSE IF x.k = "inf"
         THEN (IF y.k = "inf" THEN NaN
               ELSE Inf(x.n * (IF y.n < 0 THEN -1 ELSE 1)))
    ELSE IF y.k = "inf" THEN Num(0)
    ELSE IF y.n = 0 THEN (IF x.n = 0 THEN NaN ELSE Inf(Sgn(x.n)))
    ELSE Fin(x.n * y.d, x.d * y.n)

(* The square root of a variance, kept symbolic unless the variance is 0. *)
Sqrt(x) ==
    IF x.k = "fin" /\ x.n > 0 THEN [x EXCEPT !.k = "sqrt"]
    ELSE IF x.k = "fin" /\ x.n < 0 THEN NaN
    ELSE x

Gt0(x) == x.k \in {"fin", "inf"} /\ x.n > 0

Lt0(x) == x.k \in {"fin", "inf"} /\ x.n < 0

(***************************************************************************)
(* pandas Series (a sequence of cells) and DataFrame                       *)
(***************************************************************************)
Range(s) == {s[i] : i \in 1..Len(s)}

SubS(a, b) == [i \in 1..Len(a) |-> Sub(a[i], b[i])]

MulS(a, b) == [i \in 1..Len(a) |-> Mul(a[i], b[i])]

DivS(a, b) == [i \in 1..Len(a) |-> Div(a[i], b[i])]

NegS(a) == [i \in 1..Len(a) |-> Neg(a[i])]

RECURSIVE SumCells(_, _, _)
SumCells(s, lo, hi) == IF lo > hi THEN Num(0) ELSE Add(s[lo], SumCells(s, lo + 1, hi))

(* Series.rolling(window).mean(): min_periods defaults to the window, so a  *)
(* row with fewer than window rows of history, or with a not-a-number in    *)
(* its window, is not-a-number.                                             *)
RollingMean(s, window) ==
    [i \in 1..Len(s) |->
        IF i < window \/ \E j \in (i - window + 1)..i : IsNaN(s[j]) THEN NaN
        ELSE Div(SumCells(s, i - window + 1, i), Num(window))]

RECURSIVE SumSqDev(_, _, _, _)
SumSqDev(s, mean, lo, hi) ==
    IF lo > hi THEN Num(0)
    ELSE Add(Mul(Sub(s[lo], mean), Sub(s[lo], mean)), SumSqDev(s, mean, lo + 1, hi))

(* Series.rolling(window).std(): sample standard deviation (ddof = 1). *)
RollingStd(s, window) ==
    LET mean == RollingMean(s, window)
    IN [i \in 1..Len(s) |->
          IF IsNaN(mean[i]) THEN NaN
          ELSE Sqrt(Div(SumSqDev(s, mean[i], i - window + 1, i), Num(window - 1)))]

(* Series.diff(): the first row has no predecessor. *)
Diff(s) == [i \in 1..Len(s) |-> IF i = 1 THEN NaN ELSE Sub(s[i], s[i - 1])]

(* delta.where(delta > 0, 0) and delta.where(delta < 0, 0) *)
WherePositive(s) == [i \in 1..Len(s) |-> IF Gt0(s[i]) THEN s[i] ELSE Num(0)]

WhereNegative(s) == [i \in 1..Len(s) |-> IF Lt0(s[i]) THEN s[i] ELSE Num(0)]

(* A DataFrame: its column names in order, the cells of each column, its    *)
(* row count (the index is 1..nrows), and the exception an access raised.   *)
Frame(columns, col, nrows) ==
    [columns |-> columns, col |-> col, nrows |-> nrows, raised |-> "none"]

(* pd.DataFrame(index=data.index) *)
EmptyFrame(nrows) == Frame(<<>>, <<>>, nrows)

Has(df, name) == name \in Range(df.columns)

GetItem(df, name) == df.col[CHOOSE i \in 1..Len(df.columns) : df.columns[i] = name]

(* df[name] = series: a new column goes last, an existing one is replaced. *)
SetItem(df, name, series) ==
    IF Has(df, name)
    THEN [df EXCEPT !.col = [i \in 1..Len(df.columns) |->
                                IF df.columns[i] = name THEN series ELSE df.col[i]]]
    ELSE [df EXCEPT !.columns = Append(@, name), !.col = Append(@, series)]

(* ratios[name] = <expression over data[c], c in uses>: data[c] raises      *)
(* KeyError when c is no column of data, and the assignment is not reached. *)
Assign(ratios, data, uses, name, series) ==
    IF ratios.raised # "none" THEN ratios
    ELSE IF \E c \in uses : ~Has(data, c) THEN [ratios EXCEPT !.raised = "KeyError"]
    ELSE SetItem(ratios, name, series)

(* DataFrame.fillna(value): not-a-number cells become value. *)
FillNa(df, value) ==
    [df EXCEPT !.col = [i \in 1..Len(df.columns) |->
                          [r \in 1..Len(df.col[i]) |->
                              IF IsNaN(df.col[i][r]) THEN value ELSE df.col[i][r]]]]

(***************************************************************************)
(* calculate_ratios                                                        *)
(***************************************************************************)
ShortWindow == 5
LongWindow == 20
RSIWindow == 14

(* Faulty variant: the price ratio is derived when either column is present. *)
HasHighOrLow(data) == Has(data, "High") \/ Has(data, "Low")

HasHighAndLow(data) == Has(data, "High") /\ Has(data, "Low")

HasCloseAndOpen(data) == Has(data, "Close") /\ Has(data, "Open")

HasVolumeAndClose(data) == Has(data, "Volume") /\ Has(data, "Close")

HasClose(data) == Has(data, "Close")

(* Faulty variant: a zero mean loss is treated as an undefined ratio. *)
RsiZeroLossUndefined(gain, loss) ==
    IF loss.k = "fin" /\ loss.n = 0 THEN NaN
    ELSE Sub(Num(100), Div(Num(100), Add(Num(1), Div(gain, loss))))

(* rs = gain / loss; RSI = 100 - (100 / (1 + rs)), cell by cell. *)
RsiCell(gain, loss) ==
    Sub(Num(100), Div(Num(100), Add(Num(1), Div(gain, loss))))

MeanGain(close) == RollingMean(WherePositive(Diff(close)), RSIWindow)

MeanLoss(close) == RollingMean(NegS(WhereNegative(Diff(close))), RSIWindow)

Rsi(close) ==
    LET gain == MeanGain(close)
        loss == MeanLoss(close)
    IN [i \in 1..Len(close) |-> RsiCell(gain[i], loss[i])]

PriceRatios(data, ratios) ==
    LET r1 == IF HasHighAndLow(data)
              THEN Assign(ratios, data, {"High", "Low"}, "price_range",
                          DivS(SubS(GetItem(data, "High"), GetItem(data, "Low")),
                               GetItem(data, "Low")))
              ELSE ratios
    IN IF HasCloseAndOpen(data)
       THEN Assign(r1, data, {"Close", "Open"}, "price_change",
                   DivS(SubS(GetItem(data, "Close"), GetItem(data, "Open")),
                        GetItem(data, "Open")))
       ELSE r1

VolumeRatios(data, ratios) ==
    IF HasVolumeAndClose(data)
    THEN LET r1 == Assign(ratios, data, {"Volume", "Close"}, "volume_price_ratio",
                          MulS(GetItem(data, "Volume"), GetItem(data, "Close")))
             r2 == Assign(r1, data, {"Volume"}, "volume_ma5",
                          RollingMean(GetItem(data, "Volume"), ShortWindow))
             r3 == Assign(r2, data, {"Volume"}, "volume_ma20",
                          RollingMean(GetItem(data, "Volume"), LongWindow))
         IN Assign(r3, data, {"Volume"}, "volume_ratio",
                   DivS(GetItem(data, "Volume"), GetItem(r3, "volume_ma5")))
    ELSE ratios

TechnicalIndicators(data, ratios) ==
    IF HasClose(data)
    THEN LET r1 == Assign(ratios, data, {"Close"}, "ma5",
                          RollingMean(GetItem(data, "Close"), ShortWindow))
             r2 == Assign(r1, data, {"Close"}, "ma20",
                          RollingMean(GetItem(data, "Close"), LongWindow))
             r3 == Assign(r2, data, {"Close"}, "RSI", Rsi(GetItem(data, "Close")))
         IN Assign(r3, data, {"Close"}, "volatility",
                   RollingStd(GetItem(data, "Close"), LongWindow))
    ELSE ratios

(* Faulty variant: line 14 binds ratios to the caller's table itself, so   *)
(* every ratios[name] = ... lands in data.                                 *)
DataSharedWithRatios(data, ratios) ==
    IF ratios.raised # "none" THEN data
    ELSE [data EXCEPT !.columns = @ \o ratios.columns, !.col = @ \o ratios.col]

(* The caller's table once calculate_ratios(data) has returned ratios:     *)
(* ratios is a frame of its own (line 14), every store of the body goes to *)
(* ratios and fillna returns a new frame, so nothing is stored into data.  *)
DataAfterRatios(data, ratios) == data

(* The returned frame; raised # "none" when the call raised instead. *)
calculate_ratios(data) ==
    LET ratios == TechnicalIndicators(data,
                     VolumeRatios(data,
                        PriceRatios(data, EmptyFrame(data.nrows))))
    IN IF ratios.raised # "none" THEN ratios ELSE FillNa(ratios, Num(0))

(***************************************************************************)
(* prepare_features                                                        *)
(***************************************************************************)
(* dict.get(key, default) *)
DictGet(dict, key, default) == IF key \in DOMAIN dict THEN dict[key] ELSE default

(* The columns one (feature_name, options) item appends to features. *)
ItemColumns(data, ratios, feature_name, options) ==
    IF Has(data, feature_name)
    THEN (IF DictGet(options, "use_raw", TRUE)
          THEN <<GetItem(data, feature_name)>> ELSE <<>>)
         \o (IF DictGet(options, "use_ratio", TRUE) /\ Has(ratios, feature_name)
             THEN <<GetItem(ratios, feature_name)>> ELSE <<>>)
    ELSE <<>>

(* The loop over feature_options.items(), from item i on. *)
RECURSIVE CollectFeatures(_, _, _, _)
CollectFeatures(data, ratios, feature_options, i) ==
    IF i > Len(feature_options) THEN <<>>
    ELSE ItemColumns(data, ratios, feature_options[i].name, feature_options[i].options)
         \o CollectFeatures(data, ratios, feature_options, i + 1)

(* Faulty variant: the empty list is stacked like any other. *)
NeverEmpty(features) == FALSE

(* not features *)
NoFeatures(features) == features = <<>>

(* The outcome of a call: the matrix as its columns, left to right, or the  *)
(* exception raised.                                                        *)
Outcome(raised, matrix, nrows) == [raised |-> raised, matrix |-> matrix, nrows |-> nrows]

prepare_features(data, feature_options) ==
    LET ratios == calculate_ratios(data)
    IN IF ratios.raised # "none" THEN Outcome(ratios.raised, <<>>, 0)
       ELSE LET features == CollectFeatures(data, ratios, feature_options, 1)
            IN IF NoFeatures(features) THEN Outcome("ValueError", <<>>, 0)
               ELSE Outcome("none", features, data.nrows)

(***************************************************************************)
(* AnalysisWorker.run                                                      *)
(***************************************************************************)
ProgressLabels ==
    << "Initializing analysis...", "Processing features...",
       "Running anomaly detection...", "Generating visualizations..." >>

(* The call made after each progress label. *)
StageCalls == << "AdvancedAnomalyAnalyzer", "prepare_features", "analyze",
                 "generate_plots" >>

Progress(w, label) == [run |-> w, signal |-> "progress_update", arg |-> label]
Complete(w, result) == [run |-> w, signal |-> "analysis_complete", arg |-> result]
Failure(w, message) == [run |-> w, signal |-> "error_occurred", arg |-> message]

IsTerminal(e) == e.signal \in {"analysis_complete", "error_occurred"}

(* Faulty variant: the exception of a stage is swallowed and run goes on. *)
AfterStageNoCatch(ok, stage) == stage + 1

(* try/except around the whole body: a raising call jumps to the handler. *)
AfterStage(ok, stage) == IF ok THEN stage + 1 ELSE 0

(* One stage of run: emit the stage's label, then make the stage's call,    *)
(* which returns or raises.  pc = 1..4: about to start that stage; 5: about *)
(* to emit analysis_complete; 0: in the except handler; -1: run returned.   *)
WorkerStage(w, ok) ==
    /\ UNCHANGED fe_vars
    /\ w \in Runs
    /\ workers[w].pc \in 1..4
    /\ Len(events) < MaxEvents
    /\ LET s == workers[w].pc
           e == Progress(w, ProgressLabels[s])
       IN /\ workers' = [workers EXCEPT
                           ![w].pc = AfterStage(ok, s),
                           ![w].emitted = Append(@, e),
                           ![w].called = Append(@, StageCalls[s]),
                           ![w].raised = IF ok THEN @ ELSE Append(@, StageCalls[s])]
          /\ events' = Append(events, e)
    /\ UNCHANGED <<current_data, output_dir, run_button, analysis_thread,
                   current_result, plots_directory, tab_index, notified>>

WorkerComplete(w) ==
    /\ UNCHANGED fe_vars
    /\ w \in Runs
    /\ workers[w].pc = 5
    /\ Len(events) < MaxEvents
    /\ LET e == Complete(w, w)
       IN /\ workers' = [workers EXCEPT ![w].pc = -1,
                                        ![w].emitted = Append(@, e)]
          /\ events' = Append(events, e)
    /\ UNCHANGED <<current_data, output_dir, run_button, analysis_thread,
                   current_result, plots_directory, tab_index, notified>>

WorkerExcept(w) ==
    /\ UNCHANGED fe_vars
    /\ w \in Runs
    /\ workers[w].pc = 0
    /\ Len(events) < MaxEvents
    /\ LET e == Failure(w, workers[w].raised[Len(workers[w].raised)])
       IN /\ workers' = [workers EXCEPT ![w].pc = -1,
                                        ![w].emitted = Append(@, e)]
          /\ events' = Append(events, e)
    /\ UNCHANGED <<current_data, output_dir, run_button, analysis_thread,
                   current_result, plots_directory, tab_index, notified>>

(***************************************************************************)
(* AnomalyDetectorGUI                                                      *)
(***************************************************************************)
(* Faulty variant: the test of a field or a dialog answer always passes. *)
AlwaysSet(x) == TRUE

(* bool(x) of a value that is None or a non-empty object. *)
Bool(x) == x # None

(* load_data: the dialog is cancelled, read_csv raises, or the table loads. *)
LoadData(outcome) ==
    /\ UNCHANGED fe_vars
    /\ outcome \in {"cancel", "error", "ok"}
    /\ IF outcome = "ok"
       THEN /\ current_data' = Table
            /\ run_button' = Bool(output_dir)
       ELSE UNCHANGED <<current_data, run_button>>
    /\ UNCHANGED <<output_dir, analysis_thread, current_result,
                   plots_directory, tab_index, workers, events, notified>>

(* select_output_directory: directory = None models the cancelled dialog. *)
SelectOutputDirectory(directory) ==
    /\ UNCHANGED fe_vars
    /\ IF Bool(directory)
       THEN /\ output_dir' = directory
            /\ run_button' = Bool(current_data)
       ELSE UNCHANGED <<output_dir, run_button>>
    /\ UNCHANGED <<current_data, analysis_thread, current_result,
                   plots_directory, tab_index, workers, events, notified>>

(* The worker object run_analysis constructs. *)
NewWorker ==
    [pc |-> 1, input |-> current_data, output_dir |-> output_dir,
     emitted |-> <<>>, called |-> <<>>, raised |-> <<>>]

(* run_button.setEnabled(False) before the worker is started. *)
ButtonDuringRun == FALSE

(* run_analysis: the slot of run_button.clicked, so it runs only while the  *)
(* button is enabled.  has_selection / has_target: whether the feature list *)
(* has a selection and the target combo a current text.                     *)
RunAnalysis(has_selection, has_target) ==
    /\ UNCHANGED fe_vars
    /\ run_button
    /\ Len(workers) < MaxRuns
    /\ IF ~Bool(current_data) \/ ~Bool(output_dir)
       THEN UNCHANGED gui_vars
       ELSE IF ~has_selection \/ ~has_target
       THEN UNCHANGED gui_vars
       ELSE /\ workers' = Append(workers, NewWorker)
            /\ notified' = Append(notified, "none")
            /\ analysis_thread' = Len(workers) + 1
            /\ run_button' = ButtonDuringRun
            /\ UNCHANGED <<current_data, output_dir, current_result,
                           plots_directory, tab_index, events>>

(* analysis_completed(result), the slot of the completion signal. *)
AnalysisCompleted(result) ==
    /\ current_result' = result
    /\ plots_directory' = IF Bool(output_dir) THEN output_dir ELSE plots_directory
    /\ run_button' = TRUE
    /\ tab_index' = 1

(* The control thread takes the next posted signal and runs its slot:       *)
(* progress and error are connected to lambdas that only log.               *)
Deliver ==
    /\ UNCHANGED fe_vars
    /\ events # <<>>
    /\ LET e == Head(events)
       IN /\ events' = Tail(events)
          /\ IF e.signal = "analysis_complete"
             THEN AnalysisCompleted(e.arg)
             ELSE UNCHANGED <<current_result, plots_directory, run_button,
                              tab_index>>
          /\ notified' = IF IsTerminal(e)
                         THEN [notified EXCEPT ![e.run] = e.signal]
                         ELSE notified
    /\ UNCHANGED <<current_data, output_dir, analysis_thread, workers>>

InitGui ==
    /\ current_data = None
    /\ output_dir = None
    /\ run_button = FALSE
    /\ analysis_thread = None
    /\ current_result = None
    /\ plots_directory = None
    /\ tab_index = 0
    /\ workers = <<>>
    /\ events = <<>>
    /\ notified = <<>>

(* No call of the feature engineering functions is pending or made. *)
Pending == [raised |-> "pending"]

IsPending(result) == result.raised = "pending"

NoInput == Frame(<<>>, <<>>, 0)

Init ==
    /\ InitGui
    /\ input_data = NoInput
    /\ input_options = <<>>
    /\ ratios_result = Pending
    /\ features_result = Pending
    /\ ratios_again = Pending

(***************************************************************************)
(* Inputs of the feature engineering calls                                 *)
(***************************************************************************)
MaxRows == 1
MaxLongRows == 20
MaxOptions == 2

(* Columns a raw table may have, in file order. *)
RawColumnOrder == <<"Open", "High", "Low", "Close", "Volume", "foo">>

CellValues == {NaN, Num(-1), Num(0), Num(1)}

(* The columns the ratios are derived from. *)
DomainColumns == {"Open", "High", "Low", "Close", "Volume"}

(* Short tables: any subset of the raw columns, each column constant; the   *)
(* unrelated column foo holds 1.                                            *)
ShortTable(S, nrows, value) ==
    LET columns == SelectSeq(RawColumnOrder, LAMBDA c : c \in S)
        cell(c) == IF c \in DomainColumns THEN value[c] ELSE Num(1)
    IN Frame(columns,
             [i \in 1..Len(columns) |-> [r \in 1..nrows |-> cell(columns[i])]],
             nrows)

ShortTables(maxrows) ==
    UNION { { ShortTable(S, nrows, value) :
              value \in [S \cap DomainColumns -> CellValues] } :
            S \in SUBSET Range(RawColumnOrder), nrows \in 0..maxrows }

(* Long tables: nrows rows of Close and/or Volume that move by step1 a row  *)
(* up to row kink and by step2 a row after it.                              *)
Kinked(base, step1, step2, kink, nrows) ==
    [r \in 1..nrows |->
        Num(base + step1 * ((IF r < kink THEN r ELSE kink) - 1)
                 + step2 * (IF r > kink THEN r - kink ELSE 0))]

LongColumnSets == { <<"Close">>, <<"Volume">>, <<"Close", "Volume">> }

LongTables(nrows) ==
    { Frame(columns,
            [i \in 1..Len(columns) |-> Kinked(base, step1, step2, kink, nrows)],
            nrows) :
      columns \in LongColumnSets, base \in {-2, 0, 10},
      step1 \in {-1, 0, 1}, step2 \in {-1, 0, 1}, kink \in 1..nrows }

(* Tables for prepare_features: Close and columns named like the options,   *)
(* each column with cells of its own.                                       *)
FeatureColumnOrder == <<"Close", "foo", "RSI", "ma5">>

FeatureTables(maxrows) ==
    { LET columns == SelectSeq(FeatureColumnOrder, LAMBDA c : c \in S)
      IN Frame(columns,
               [i \in 1..Len(columns) |-> [r \in 1..nrows |-> Num(10 * i + r)]],
               nrows) :
      S \in SUBSET Range(FeatureColumnOrder), nrows \in 0..maxrows }

OptionNames == {"foo", "RSI", "ma5"}

(* The two-flag dicts get_options builds, and the empty dict. *)
OptionDicts == [{"use_raw", "use_ratio"} -> BOOLEAN] \cup {<<>>}

(* Insertion-ordered mappings: the keys of a dict are distinct. *)
OptionMaps(maxlen) ==
    UNION { { m \in [1..len -> [name : OptionNames, options : OptionDicts]] :
                \A i, j \in 1..len : i # j => m[i].name # m[j].name } :
            len \in 0..maxlen }

InitFe(tables, maps) ==
    /\ InitGui
    /\ input_data \in tables
    /\ input_options \in maps
    /\ ratios_result = Pending
    /\ features_result = Pending
    /\ ratios_again = Pending

InitRatios == InitFe(ShortTables(MaxRows) \cup LongTables(MaxLongRows), {<<>>})

InitFeatures == InitFe(FeatureTables(MaxRows), OptionMaps(MaxOptions))

CallCalculateRatios ==
    /\ IsPending(ratios_result)
    /\ ratios_result' = calculate_ratios(input_data)
    /\ input_data' = DataAfterRatios(input_data, ratios_result')
    /\ UNCHANGED <<input_options, features_result, ratios_again, gui_vars>>

(* A second call on the table the first call was given. *)
CallCalculateRatiosAgain ==
    /\ ~IsPending(ratios_result)
    /\ IsPending(ratios_again)
    /\ ratios_again' = calculate_ratios(input_data)
    /\ input_data' = DataAfterRatios(input_data, ratios_again')
    /\ UNCHANGED <<input_options, ratios_result, features_result, gui_vars>>

CallPrepareFeatures ==
    /\ IsPending(features_result)
    /\ features_result' = prepare_features(input_data, input_options)
    /\ UNCHANGED <<input_data, input_options, ratios_result, ratios_again,
                   gui_vars>>

NextFe == CallCalculateRatios \/ CallPrepareFeatures

NextTwice == CallCalculateRatios \/ CallCalculateRatiosAgain

SpecRatios == InitRatios /\ [][NextFe]_vars

SpecFeatures == InitFeatures /\ [][NextFe]_vars

SpecTwice == InitRatios /\ [][NextTwice]_vars

Next ==
    \/ \E outcome \in {"cancel", "error", "ok"} : LoadData(outcome)
    \/ \E directory \in Dirs \cup {None} : SelectOutputDirectory(directory)
    \/ \E has_selection \in BOOLEAN, has_target \in BOOLEAN :
          RunAnalysis(has_selection, has_target)
    \/ \E w \in Runs, ok \in BOOLEAN : WorkerStage(w, ok)
    \/ \E w \in Runs : WorkerComplete(w)
    \/ \E w \in Runs : WorkerExcept(w)
    \/ Deliver

Spec == Init /\ [][Next]_vars

(***************************************************************************)
(* Claims about the run-button gate and the worker                         *)
(***************************************************************************)
(* A run is active from its start until the control thread has received    *)
(* its completion or failure notification.                                 *)
Active(w) == notified[w] = "none"

(* run has not returned yet. *)
Running(w) == workers[w].pc # -1

(* C1: single-flight: at most one run is running at a time, and while a     *)
(* started run is active the run button stays disabled, whatever load_data, *)
(* select_output_directory and run_analysis do in between.                  *)
C1_SingleFlight ==
    /\ Cardinality({w \in Runs : Running(w)}) <= 1
    /\ (\E w \in Runs : Active(w)) => ~run_button

(* The progress notifications among the first k emissions of run w are the  *)
(* first k labels, in order.                                                *)
LabelPrefix(w, k) ==
    /\ k <= Len(ProgressLabels)
    /\ \A i \in 1..k : workers[w].emitted[i] = Progress(w, ProgressLabels[i])

(* C2: every run emits a prefix of the four progress labels in their fixed  *)
(* order, then exactly one terminal notification, completion or failure,    *)
(* and nothing after it; it calls no stage after a stage that raised, and   *)
(* a raised exception ends in the failure notification, not outside run.    *)
C2_EmissionOrder ==
    \A w \in Runs :
        LET em == workers[w].emitted
            n == Len(em)
            k == IF n > 0 /\ IsTerminal(em[n]) THEN n - 1 ELSE n
            called == workers[w].called
            raised == workers[w].raised
        IN /\ LabelPrefix(w, k)
           /\ (workers[w].pc = -1) <=> (k = n - 1)
           /\ Len(called) = k
           /\ \A i \in 1..k : called[i] = StageCalls[i]
           /\ Len(raised) <= 1
           /\ raised # <<>> =>
                 /\ raised[1] = called[k]
                 /\ workers[w].pc \in {0, -1}
                 /\ k < n => em[n] = Failure(w, raised[1])
           /\ (raised = <<>> /\ k < n) => (k = 4 /\ em[n] = Complete(w, w))

(* C2 witness: prepare_features raised; the run emitted two labels and then *)
(* its failure notification, and returned.                                  *)
C2_Witness ==
    \E w \in Runs :
        /\ workers[w].pc = -1
        /\ workers[w].raised = <<"prepare_features">>
        /\ Len(workers[w].emitted) = 3
        /\ workers[w].emitted[3].signal = "error_occurred"

(* C3: the receipt of a run's completion notification or of its failure     *)
(* notification re-enables the run button.                                  *)
C3_TerminalReenables ==
    [][\A w \in Runs : (notified[w] = "none" /\ notified'[w] # "none")
                          => run_button']_vars

(***************************************************************************)
(* Claims about calculate_ratios                                           *)
(***************************************************************************)
(* calculate_ratios was called on input_data and returned a frame. *)
RatiosReturned == ~IsPending(ratios_result) /\ ratios_result.raised = "none"

Cells(df) == UNION {Range(df.col[i]) : i \in 1..Len(df.columns)}

(* C4: every cell of the returned ratio table is finite: none is            *)
(* not-a-number and none is plus or minus infinity.                         *)
C4_AllCellsFinite ==
    RatiosReturned => \A x \in Cells(ratios_result) : IsFinite(x)

(* a < b and a = b for finite cells. *)
Less(a, b) == a.n * b.d < b.n * a.d

(* Row i has a full RSI window, and Close falls nowhere in it. *)
FullWindowNoFall(close, i) ==
    /\ i >= RSIWindow
    /\ \A j \in (i - RSIWindow + 1)..i : j > 1 => ~Less(close[j], close[j - 1])

(* Close rises somewhere in the RSI window of row i. *)
RisesInWindow(close, i) ==
    \E j \in (i - RSIWindow + 1)..i : j > 1 /\ Less(close[j - 1], close[j])

C9_VolumeAveragesNeedOnlyVolume ==
    (~IsPending(ratios_result) /\ Has(input_data, "Volume")) =>
        /\ ratios_result.raised = "none"
        /\ \A c \in {"volume_ma5", "volume_ma20", "volume_ratio"} :
              Has(ratios_result, c)

(* C10: on a raw table lacking High or lacking Low, calculate_ratios        *)
(* returns without raising and its output has no price_range column.        *)
C10_NoPriceRangeNoRaise ==
    (~IsPending(ratios_result)
        /\ (~Has(input_data, "High") \/ ~Has(input_data, "Low"))) =>
        /\ ratios_result.raised = "none"
        /\ ~Has(ratios_result, "price_range")

(* C10 witness: a table with Low, Close and Volume but no High went through *)
(* calculate_ratios, which derived the other ratios and no price_range.     *)
C10_Witness ==
    /\ RatiosReturned
    /\ Has(input_data, "Low") /\ ~Has(input_data, "High")
    /\ input_data.nrows > 0
    /\ Has(ratios_result, "volume_ratio")
    /\ ~Has(ratios_result, "price_range")

(***************************************************************************)
(* Claims about prepare_features                                           *)
(***************************************************************************)
FeaturesCalled == ~IsPending(features_result)

UseRaw(item) == DictGet(item.options, "use_raw", TRUE)

UseRatio(item) == DictGet(item.options, "use_ratio", TRUE)

(* The ratio table prepare_features works with. *)
RatiosOfInput == calculate_ratios(input_data)

(* C6: every feature with use_ratio true whose name is a column of the      *)
(* ratio table has its ratio column in the matrix, whether or not the name  *)
(* is a column of the raw table.                                            *)
C6_RatioColumnAppended ==
    FeaturesCalled =>
        \A i \in 1..Len(input_options) :
            (UseRatio(input_options[i]) /\ Has(RatiosOfInput, input_options[i].name))
                => /\ features_result.raised = "none"
                   /\ GetItem(RatiosOfInput, input_options[i].name)
                         \in Range(features_result.matrix)

(* The layout the matrix is claimed to have: per feature, in insertion      *)
(* order, its raw column if use_raw and the name is a raw column, then its  *)
(* ratio column if use_ratio and the name is a ratio column.                *)
RECURSIVE ClaimedLayout(_)
ClaimedLayout(i) ==
    IF i > Len(input_options) THEN <<>>
    ELSE LET item == input_options[i]
         IN (IF UseRaw(item) /\ Has(input_data, item.name)
             THEN <<GetItem(input_data, item.name)>> ELSE <<>>)
            \o (IF UseRatio(item) /\ Has(RatiosOfInput, item.name)
                THEN <<GetItem(RatiosOfInput, item.name)>> ELSE <<>>)
            \o ClaimedLayout(i + 1)

(* C7: a returned matrix has the raw table's row count and exactly the      *)
(* claimed layout: column order and column count.                           *)
C7_MatrixLayout ==
    (FeaturesCalled /\ features_result.raised = "none") =>
        /\ features_result.nrows = input_data.nrows
        /\ \A c \in Range(features_result.matrix) : Len(c) = input_data.nrows
        /\ features_result.matrix = ClaimedLayout(1)

(* The number of columns the loop collects. *)
RECURSIVE CollectedCount(_)
CollectedCount(i) ==
    IF i > Len(input_options) THEN 0
    ELSE LET item == input_options[i]
             raw == IF Has(input_data, item.name) /\ UseRaw(item) THEN 1 ELSE 0
             ratio == IF Has(input_data, item.name) /\ UseRatio(item)
                         /\ Has(RatiosOfInput, item.name) THEN 1 ELSE 0
         IN raw + ratio + CollectedCount(i + 1)

(* C8: prepare_features raises the empty-selection error exactly when zero  *)
(* columns were collected; that includes an empty mapping, every feature    *)
(* with both flags false, and every feature a column of neither table; and  *)
(* it never returns a matrix with zero columns.                             *)
C8_EmptySelectionRaises ==
    FeaturesCalled =>
        /\ features_result.raised \in {"none", "ValueError"}
        /\ (features_result.raised = "ValueError") <=> (CollectedCount(1) = 0)
        /\ features_result.raised = "none" => Len(features_result.matrix) >= 1
        /\ input_options = <<>> => features_result.raised = "ValueError"
        /\ (\A i \in 1..Len(input_options) :
               ~UseRaw(input_options[i]) /\ ~UseRatio(input_options[i]))
             => features_result.raised = "ValueError"
        /\ (\A i \in 1..Len(input_options) :
               /\ ~Has(input_data, input_options[i].name)
               /\ ~Has(RatiosOfInput, input_options[i].name))
             => features_result.raised = "ValueError"

(* C8 witness: features that are raw columns, all with both flags false:    *)
(* the call raised the empty-selection error.                               *)
C8_Witness ==
    /\ FeaturesCalled
    /\ input_options # <<>>
    /\ \A i \in 1..Len(input_options) :
          /\ Has(input_data, input_options[i].name)
          /\ ~UseRaw(input_options[i]) /\ ~UseRatio(input_options[i])
    /\ features_result.raised = "ValueError"

(***************************************************************************)
(* Claims about calling calculate_ratios twice                             *)
(***************************************************************************)
(* The frame has one row per row of the raw table, in every column. *)
OnIndexOf(result, data) ==
    /\ result.raised = "none"
    /\ result.nrows = data.nrows
    /\ \A i \in 1..Len(result.columns) : Len(result.col[i]) = data.nrows

C12_EnabledMeansReady ==
    /\ run_button => (current_data # None /\ output_dir # None)
    /\ \A w \in Runs : workers[w].input # None /\ workers[w].output_dir # None

(* The button is enabled again by analysis_completed for a worker that was *)
(* constructed by run_analysis.                                            *)
C12_Witness ==
    /\ run_button
    /\ current_data # None /\ output_dir # None
    /\ \E w \in Runs : notified[w] = "analysis_complete"

(* C13: when analysis_completed handles the completion of a run, the       *)
(* directory handed to the plot viewer is the output directory the run was *)
(* started with, whatever select_output_directory did in between.          *)
C13_ShownWhereWritten ==
    [][ \A w \in Runs :
          (notified[w] = "none" /\ notified'[w] = "analysis_complete") =>
              plots_directory' = workers[w].output_dir ]_vars

=============================================================================
